---------------------------- MODULE Spec2Model ----------------------------
(***************************************************************************)
(* A model of the Pipedrive MCP server (src/src/index.ts): the start-up    *)
(* script, the tool handlers the host dispatches, and the upstream CRM API *)
(* they call.  A handler runs atomically from one await to the next, as    *)
(* JavaScript does; the host may have several invocations suspended at     *)
(* once.                                                                   *)
(***************************************************************************)
EXTENDS Integers, Sequences, FiniteSets, TLC

VARIABLES
    main,       \* the start-up script: its position, process.env, the registries
    upstream,   \* how the upstream API answers (fixed for a behaviour)
    inv         \* the invocations dispatched so far, each with its locals

vars == <<main, upstream, inv>>

--------------------------------------------------------------------------
(* Program constants *)

\* const limit = 500
Limit == 500

\* if (start >= 10000) break
SafetyLimit == 10000

\* z.enum([...]) of get-deals' status
StatusEnum == {"open", "won", "lost", "deleted", "all_not_deleted"}

--------------------------------------------------------------------------
(* Bounds of the model *)

\* upstream collections hold 0..MaxSmallPages full pages (plus a remainder),
\* or a number of pages around the safety limit
MaxSmallPages == 3

\* a faulty upstream answer happens on one of the pages 1..MaxFaultPage
MaxFaultPage == 3

\* invocations the host has suspended at the same time
MaxInvocations == 2

\* the by-ID tools are asked for the IDs 1..MaxId
MaxId == 2

\* the pipelines the upstream lists, and the stages of one
MaxPipelines == 2

MaxStages == 2

CeilingPages == SafetyLimit \div Limit

Remainders == {0, 1, Limit - 1}

\* the sizes of the collections a well-formed upstream serves: every number
\* of full pages up to one page past the safety limit, plus a remainder
AllTotals == {p * Limit + r : p \in 0..(CeilingPages + 1), r \in Remainders}

\* the sizes of the collections a faulty upstream serves
PageCounts == (0..MaxSmallPages) \cup {CeilingPages - 1, CeilingPages, CeilingPages + 1}

Totals == {p * Limit + r : p \in PageCounts, r \in Remainders}

Min(a, b) == IF a < b THEN a ELSE b

Max(a, b) == IF a < b THEN b ELSE a

--------------------------------------------------------------------------
(* The start-up script *)

\* the server.tool(...) calls, in source order
ToolOrder ==
    << "get-deals", "get-deal", "get-deal-history", "search-deals",
       "get-persons", "get-person", "search-persons",
       "get-organizations", "get-organization", "search-organizations",
       "get-pipelines", "get-pipeline", "get-stages",
       "search-leads", "search-all" >>

\* the server.prompt(...) calls, in source order
PromptOrder ==
    << "list-all-deals", "list-all-persons", "list-all-pipelines",
       "analyze-deals", "analyze-contacts", "analyze-leads",
       "compare-pipelines", "find-high-value-deals" >>

\* PIPEDRIVE_API_TOKEN in the environment or in .env: unset, empty or set
TokenInputs == {"undefined", "", "secret"}

\* the process when node starts the script
ProcessStart(token) ==
    [pc |-> "dotenv", token |-> token, tools |-> <<>>, prompts |-> <<>>,
     connected |-> FALSE, exitCode |-> -1]

\* the process once the script has run with a token and the transport started
Started ==
    [pc |-> "serving", token |-> "secret", tools |-> ToolOrder, prompts |-> PromptOrder,
     connected |-> TRUE, exitCode |-> -1]

\* dotenv.config(): a variable of .env is set unless the environment has it
DotenvConfig(token, file) == IF token = "undefined" THEN file ELSE token

\* !process.env.PIPEDRIVE_API_TOKEN
TokenMissing(token) == token \in {"undefined", ""}

\* a check that logs and goes on
CheckedTokenNoExit(m) == [m EXCEPT !.pc = "configure"]

\* if (!process.env.PIPEDRIVE_API_TOKEN) { ...; process.exit(1) }
CheckedToken(m) ==
    IF TokenMissing(m.token) THEN [m EXCEPT !.pc = "exited", !.exitCode = 1]
                             ELSE [m EXCEPT !.pc = "configure"]

LoadEnv ==
    /\ main.pc = "dotenv"
    /\ \E file \in TokenInputs :
          main' = [main EXCEPT !.token = DotenvConfig(main.token, file), !.pc = "check"]
    /\ UNCHANGED <<upstream, inv>>

CheckToken ==
    /\ main.pc = "check"
    /\ main' = CheckedToken(main)
    /\ UNCHANGED <<upstream, inv>>

\* new pipedrive.Configuration, the API clients, new McpServer
Configure ==
    /\ main.pc = "configure"
    /\ main' = [main EXCEPT !.pc = "tools"]
    /\ UNCHANGED <<upstream, inv>>

RegisterTool ==
    /\ main.pc = "tools"
    /\ main' = IF Len(main.tools) < Len(ToolOrder)
               THEN [main EXCEPT !.tools = Append(main.tools, ToolOrder[Len(main.tools) + 1])]
               ELSE [main EXCEPT !.pc = "prompts"]
    /\ UNCHANGED <<upstream, inv>>

RegisterPrompt ==
    /\ main.pc = "prompts"
    /\ main' = IF Len(main.prompts) < Len(PromptOrder)
               THEN [main EXCEPT !.prompts = Append(main.prompts, PromptOrder[Len(main.prompts) + 1])]
               ELSE [main EXCEPT !.pc = "connect"]
    /\ UNCHANGED <<upstream, inv>>

\* server.connect(transport): the transport starts and requests are read
Connect ==
    /\ main.pc = "connect"
    /\ main' = [main EXCEPT !.pc = "serving", !.connected = TRUE]
    /\ UNCHANGED <<upstream, inv>>

\* .catch(err => { ...; process.exit(1) })
ConnectFails ==
    /\ main.pc = "connect"
    /\ main' = [main EXCEPT !.pc = "exited", !.exitCode = 1]
    /\ UNCHANGED <<upstream, inv>>

\* the host's request for a tool is served
Serving(tool) ==
    /\ main.pc = "serving"
    /\ main.connected
    /\ \E k \in 1..Len(main.tools) : main.tools[k] = tool

--------------------------------------------------------------------------
(* JavaScript values, each with its kind *)

Undefined == [kind |-> "undefined"]

Null == [kind |-> "null"]

Str(s) == [kind |-> "string", value |-> s]

Num(n) == [kind |-> "number", value |-> n]

Array(items) == [kind |-> "array", items |-> items]

\* z.string()
ZString(v) == v.kind = "string"

\* z.number()
ZNumber(v) == v.kind = "number"

\* z.string().optional(), z.number().optional()
ZOptional(ok) == ok

\* the protocol layer's answer to arguments that fail the declared schema:
\* the handler is not called
InvalidParams(tool, args) ==
    [tool |-> tool, args |-> args, pc |-> "done", calls |-> <<>>,
     result |-> [rejected |-> TRUE, code |-> -32602]]

--------------------------------------------------------------------------
(* Errors and their message *)

\* what an upstream call throws:
\*   Error         new Error('Request failed with status code 500')
\*   object        { code: 500 }
\*   string        'timeout'
\*   cyclicError   e = new Error('Request failed with status code 500'); e.request = { e }
\*   cyclicObject  o = { code: 500 }; o.self = o
\*   bigint        10n
\*   nullProto     Object.create(null)
\*   noToString    { toString: null, valueOf: null }
\* kind: whether it is an object with a string message; str: String(error),
\* where primitive says that the conversion does not throw; json: whether
\* JSON.stringify has a text for it, or why not
Errors ==
    { [name |-> "Error", kind |-> "Error", message |-> "Request failed with status code 500",
       str |-> "Error: Request failed with status code 500", primitive |-> TRUE, json |-> "ok"],
      [name |-> "object", kind |-> "object", message |-> "none",
       str |-> "[object Object]", primitive |-> TRUE, json |-> "ok"],
      [name |-> "string", kind |-> "string", message |-> "none",
       str |-> "timeout", primitive |-> TRUE, json |-> "ok"],
      [name |-> "cyclicError", kind |-> "Error", message |-> "Request failed with status code 500",
       str |-> "Error: Request failed with status code 500", primitive |-> TRUE, json |-> "cycle"],
      [name |-> "cyclicObject", kind |-> "object", message |-> "none",
       str |-> "[object Object]", primitive |-> TRUE, json |-> "cycle"],
      [name |-> "bigint", kind |-> "bigint", message |-> "none",
       str |-> "10", primitive |-> TRUE, json |-> "bigint"],
      [name |-> "nullProto", kind |-> "object", message |-> "none",
       str |-> "none", primitive |-> FALSE, json |-> "ok"],
      [name |-> "noToString", kind |-> "object", message |-> "none",
       str |-> "none", primitive |-> FALSE, json |-> "ok"] }

NoError ==
    [name |-> "none", kind |-> "none", message |-> "none", str |-> "none",
     primitive |-> TRUE, json |-> "ok"]

\* the client's errors for the upstream's 404 and 400
NotFound ==
    [name |-> "NotFound", kind |-> "Error", message |-> "Request failed with status code 404",
     str |-> "Error: Request failed with status code 404", primitive |-> TRUE, json |-> "ok"]

BadRequest ==
    [name |-> "BadRequest", kind |-> "Error", message |-> "Request failed with status code 400",
     str |-> "Error: Request failed with status code 400", primitive |-> TRUE, json |-> "ok"]

\* a TypeError of the runtime
TypeError(message) ==
    [name |-> "TypeError", kind |-> "Error", message |-> message,
     str |-> "TypeError: " \o message, primitive |-> TRUE, json |-> "ok"]

\* what JSON.stringify throws on a value it cannot serialise: for a cycle the
\* message names the path that closes it
NotSerialisable(error) ==
    IF error.name = "cyclicError"
    THEN TypeError("Converting circular structure to JSON\n    --> starting at object with constructor 'Error'\n    |     property 'request' -> object with constructor 'Object'\n    --- property 'e' closes the circle")
    ELSE IF error.name = "cyclicObject"
    THEN TypeError("Converting circular structure to JSON\n    --> starting at object with constructor 'Object'\n    --- property 'self' closes the circle")
    ELSE TypeError("Do not know how to serialize a BigInt")

\* what String(error) throws on an object that has no toString and no valueOf
NotPrimitive == TypeError("Cannot convert object to primitive value")

\* the handler's promise rejects: the handler returns no envelope
Rejects(error) == [rejects |-> TRUE, error |-> error]

isErrorWithMessage(error) == error.kind = "Error"

\* error.message, or String(error), which may throw
getErrorMessage(error) ==
    IF isErrorWithMessage(error)
    THEN [threw |-> FALSE, value |-> error.message, error |-> NoError]
    ELSE IF error.primitive
    THEN [threw |-> FALSE, value |-> error.str, error |-> NoError]
    ELSE [threw |-> TRUE, value |-> "none", error |-> NotPrimitive]

\* { content: [{ type: "text", text: `${prefix}${getErrorMessage(error)}` }],
\*   isError: true }; when getErrorMessage throws, inside the catch, the
\* handler rejects
ErrorResult(prefix, error) ==
    IF getErrorMessage(error).threw
    THEN Rejects(getErrorMessage(error).error)
    ELSE [content |-> [type |-> "text",
                       text |-> [kind |-> "string",
                                 template |-> <<prefix, getErrorMessage(error).value>>]],
          isError |-> TRUE]

--------------------------------------------------------------------------
(* The upstream collection endpoints *)

\* data of a response: an array holding the records first+1 .. first+len of
\* collection coll, or null / undefined / a non-array object
ArrayData(coll, first, len) == [kind |-> "array", coll |-> coll, first |-> first, len |-> len]

OtherData(kind) == [kind |-> kind, coll |-> <<>>, first |-> 0, len |-> 0]

DataFaults == {"ok", "null", "undefined", "object"}

MetaFaults == {"ok", "no_additional_data", "no_pagination", "no_flag", "true", "false"}

ThrowFaults == {"no"} \cup {e.name : e \in Errors}

NoFault == [data |-> "ok", meta |-> "ok", throws |-> "no", page |-> 0, sticky |-> FALSE]

Faults ==
    {NoFault}
    \cup { f \in [data : DataFaults, meta : MetaFaults, throws : {"no"},
                  page : 1..MaxFaultPage, sticky : {FALSE}] :
             f.data # "ok" \/ f.meta # "ok" }
    \cup [data : {"ok", "null"}, meta : {"true"}, throws : {"no"},
          page : {1}, sticky : {TRUE}]
    \cup [data : {"ok"}, meta : {"ok"}, throws : ThrowFaults \ {"no"},
          page : 1..MaxFaultPage, sticky : {FALSE}]

\* how a by-ID endpoint answers for an ID it does not hold
NotFoundSignals == {"throws", "null_data", "no_data"}

\* the upstreams of the list tools' specification: every collection size and
\* fault; the by-ID endpoints hold nothing
Upstreams ==
    [total : AllTotals, fault : {NoFault}, ids : {{}}, notFound : {"throws"}]
    \cup [total : Totals, fault : Faults, ids : {{}}, notFound : {"throws"}]

PageOf(start) == start \div Limit + 1

FaultyAt(up, start) ==
    /\ up.fault # NoFault
    /\ IF up.fault.sticky THEN PageOf(start) >= up.fault.page
                          ELSE PageOf(start) = up.fault.page

\* the well-formed page: the records from start on, at most limit of them,
\* and whether more follow
WellFormedData(up, coll, start, limit) ==
    ArrayData(coll, start, Max(0, Min(limit, up.total - start)))

WellFormedMore(up, start, limit) ==
    IF start + limit < up.total THEN "true" ELSE "false"

\* getDeals / getPersons / getOrganizations ({start, limit, status})
ListPage(up, coll, start, limit) ==
    LET f == IF FaultyAt(up, start) THEN up.fault ELSE NoFault
    IN  [ threw |-> f.throws # "no",
          error |-> IF f.throws = "no" THEN NoError
                    ELSE CHOOSE e \in Errors : e.name = f.throws,
          data  |-> IF f.data = "ok" THEN WellFormedData(up, coll, start, limit)
                    ELSE OtherData(f.data),
          meta  |-> IF f.meta = "ok" THEN WellFormedMore(up, start, limit)
                    ELSE f.meta ]

NoResponse == [threw |-> FALSE, error |-> NoError, data |-> OtherData("undefined"), meta |-> "no_additional_data"]

--------------------------------------------------------------------------
(* The paginated list handlers: get-deals, get-persons, get-organizations *)

ListTools == {"get-deals", "get-persons", "get-organizations"}

StatusInputs == {"undefined"} \cup StatusEnum

BoolInputs == {"undefined", "true", "false"}

NoArgs == [status |-> "undefined", count_only |-> "undefined"]

ListArgs(tool, statuses) ==
    IF tool = "get-deals" THEN [status : statuses, count_only : BoolInputs]
    ELSE {NoArgs}

\* status: status || 'all_not_deleted'
StatusSent(args) == IF args.status = "undefined" THEN "all_not_deleted" ELSE args.status

\* the collection a tool's requests read
CollectionOf(tool, args) ==
    IF tool = "get-deals" THEN <<"deals", StatusSent(args)>>
    ELSE IF tool = "get-persons" THEN <<"persons", "any">>
    ELSE <<"organizations", "any">>

CountOnly(tool, args) == tool = "get-deals" /\ args.count_only = "true"

\* response.data && Array.isArray(response.data)
HasDataArray(response) == response.data.kind = "array"

\* allDeals.push(...response.data), unless count_only
PushPage(tool, args, all, response) ==
    IF HasDataArray(response) /\ ~CountOnly(tool, args) /\ response.data.len > 0
    THEN Append(all, response.data)
    ELSE all

\* a flag that defaults to true when the metadata is absent
MoreItemsFailOpen(response) == response.meta # "false"

\* additionalData?.pagination?.more_items_in_collection || false
MoreItems(response) == response.meta = "true"

\* an offset that advances by two pages
NextStartSkips(start, hasMore) == IF hasMore THEN start + 2 * Limit ELSE start

\* if (hasMore) start += limit
NextStart(start, hasMore) == IF hasMore THEN start + Limit ELSE start

\* a safety break that fires one page early
SafetyBreakEarly(start) == start + Limit >= SafetyLimit

\* a safety break that lets the page at the ceiling be fetched
SafetyBreakLate(start) == start > SafetyLimit

\* if (start >= 10000) break
SafetyBreak(start) == start >= SafetyLimit

RECURSIVE Count(_)
\* the length of an accumulated array
Count(all) == IF all = <<>> THEN 0 ELSE all[1].len + Count(Tail(all))

\* JSON.stringify(value, null, 2): undefined has no JSON text, any other
\* value has one, which parses back to the value
JSONStringify(value) ==
    IF value.kind = "undefined" THEN Undefined ELSE [kind |-> "string", json |-> value]

\* { content: [{ type: "text", text }] }
Success(text) == [content |-> [type |-> "text", text |-> text]]

\* const totalCount = count_only ? start : allDeals.length
TotalCount(args, start, all) ==
    IF args.count_only = "true" THEN start ELSE Count(all)

\* the two envelopes get-deals returns
DealsResult(args, start, all) ==
    IF args.count_only = "true"
    THEN Success(JSONStringify(
             [kind |-> "object", total_count |-> TotalCount(args, start, all),
              status_filter |-> StatusSent(args),
              message |-> <<"Found ", TotalCount(args, start, all), " deals">>]))
    ELSE Success(JSONStringify(
             [kind |-> "object", total_count |-> Count(all),
              status_filter |-> StatusSent(args),
              deals |-> all]))

PersonsResult(all) ==
    Success(JSONStringify([kind |-> "object", total_count |-> Count(all), persons |-> all]))

OrganizationsResult(all) ==
    Success(JSONStringify([kind |-> "object", total_count |-> Count(all), organizations |-> all]))

ListResult(tool, args, start, all) ==
    IF tool = "get-deals" THEN DealsResult(args, start, all)
    ELSE IF tool = "get-persons" THEN PersonsResult(all)
    ELSE OrganizationsResult(all)

ListErrorPrefix(tool) ==
    IF tool = "get-deals" THEN "Error fetching deals: "
    ELSE IF tool = "get-persons" THEN "Error fetching persons: "
    ELSE "Error fetching organizations: "

Pending == [pending |-> TRUE]

\* the locals of a list handler at its first await: the loop is entered
\* (hasMore = true), pageCount++, and the page at start = 0 is requested
ListStart(tool, args) ==
    [ tool |-> tool, args |-> args, pc |-> "await",
      all |-> <<>>, start |-> 0, hasMore |-> TRUE, pageCount |-> 1,
      calls |-> << [start |-> 0, limit |-> Limit, coll |-> CollectionOf(tool, args)] >>,
      response |-> NoResponse, result |-> Pending ]

\* the body of the loop after the await, up to the next await or the return:
\* the page is pushed, hasMore and start are updated, the safety break may
\* leave the loop, and while (hasMore) requests the next page (pageCount++)
ListStep(l, response) ==
    LET all     == PushPage(l.tool, l.args, l.all, response)
        hasMore == MoreItems(response)
        start   == NextStart(l.start, hasMore)
        after   == [l EXCEPT !.all = all, !.hasMore = hasMore, !.start = start,
                             !.response = response]
        return  == [after EXCEPT !.pc = "done",
                                 !.result = ListResult(l.tool, l.args, start, all)]
    IN  IF SafetyBreak(start) THEN return
        ELSE IF hasMore
        THEN [after EXCEPT !.pageCount = l.pageCount + 1,
                           !.calls = Append(l.calls, [start |-> start, limit |-> Limit,
                                                      coll |-> CollectionOf(l.tool, l.args)])]
        ELSE return

\* a catch that requests the failed page again
ListCatchRetries(l, response) ==
    [l EXCEPT !.response = response, !.pageCount = l.pageCount + 1,
              !.calls = Append(l.calls, l.calls[Len(l.calls)])]

\* console.error("Error details:", JSON.stringify(error, null, 2)), in the
\* catch of get-deals only: it throws on a value that has no JSON text
LogsErrorDetails(tool) == tool = "get-deals"

\* catch (error): the error envelope; in get-deals the thrown value is
\* serialised first, and when that throws the handler rejects
ListCatch(l, response) ==
    [l EXCEPT !.response = response, !.pc = "done",
              !.result = IF LogsErrorDetails(l.tool) /\ response.error.json # "ok"
                         THEN Rejects(NotSerialisable(response.error))
                         ELSE ErrorResult(ListErrorPrefix(l.tool), response.error)]

\* the page an invocation awaits: the upstream's answer to its last request
Awaited(l, up) ==
    LET c == l.calls[Len(l.calls)]
    IN  ListPage(up, c.coll, c.start, c.limit)

\* the handler from an await to the next one, or to its return
ListResume(l, up) ==
    IF Awaited(l, up).threw THEN ListCatch(l, Awaited(l, up))
                            ELSE ListStep(l, Awaited(l, up))

RECURSIVE RunFrom(_, _)
RunFrom(l, up) == IF l.pc = "done" THEN l ELSE RunFrom(ListResume(l, up), up)

\* a list handler run alone, from its dispatch to its return
RunList(tool, args, up) == RunFrom(ListStart(tool, args), up)

--------------------------------------------------------------------------
(* The get-by-id handlers: get-deal, get-person, get-organization,
   get-pipeline *)

ByIdTools == {"get-deal", "get-person", "get-organization", "get-pipeline"}

ResourceOf(tool) ==
    IF tool = "get-deal" THEN "deal"
    ELSE IF tool = "get-person" THEN "person"
    ELSE IF tool = "get-organization" THEN "organization"
    ELSE "pipeline"

IdInputs == {Undefined, Str("12")} \cup {Num(n) : n \in 1..MaxId}

\* getDeal / getPerson / getOrganization / getPipeline ({ id })
GetById(up, resource, id) ==
    IF id \in up.ids
    THEN [threw |-> FALSE, error |-> NoError,
          data |-> [kind |-> "object", resource |-> resource, id |-> id]]
    ELSE IF up.notFound = "throws"
    THEN [threw |-> TRUE, error |-> NotFound, data |-> Undefined]
    ELSE [threw |-> FALSE, error |-> NoError,
          data |-> IF up.notFound = "null_data" THEN Null ELSE Undefined]

\* any call may also fail for a reason of its own
Failures == { [threw |-> TRUE, error |-> e, data |-> Undefined] : e \in Errors }

\* the handler up to its await
ByIdStart(tool, id) ==
    [ tool |-> tool, args |-> [id |-> id], pc |-> "await",
      calls |-> << [resource |-> ResourceOf(tool), id |-> id.value] >>,
      response |-> [threw |-> FALSE, error |-> NoError, data |-> Undefined],
      result |-> Pending ]

\* return { content: [{ type: "text", text: JSON.stringify(response.data, null, 2) }] }
ByIdReturn(l, response) ==
    [l EXCEPT !.pc = "done", !.response = response,
              !.result = Success(JSONStringify(response.data))]

\* `Error fetching deal ${dealId}: `
ByIdErrorPrefix(tool, id) == <<"Error fetching ", ResourceOf(tool), " ", id.value, ": ">>

\* catch (error)
ByIdCatch(l, response) ==
    [l EXCEPT !.pc = "done", !.response = response,
              !.result = ErrorResult(ByIdErrorPrefix(l.tool, l.args.id), response.error)]

DispatchById(cap) ==
    /\ Len(inv) < cap
    /\ \E tool \in ByIdTools : \E id \in IdInputs :
          /\ Serving(tool)
          /\ inv' = Append(inv, IF ZNumber(id) THEN ByIdStart(tool, id)
                                ELSE InvalidParams(tool, [id |-> id]))
    /\ UNCHANGED <<main, upstream>>

ByIdResponse(i) ==
    /\ inv[i].tool \in ByIdTools
    /\ inv[i].pc = "await"
    /\ \E r \in {GetById(upstream, inv[i].calls[1].resource, inv[i].calls[1].id)} \cup Failures :
          inv' = [inv EXCEPT ![i] = IF r.threw THEN ByIdCatch(inv[i], r)
                                    ELSE ByIdReturn(inv[i], r)]
    /\ UNCHANGED <<main, upstream>>

--------------------------------------------------------------------------
(* The search handlers: search-deals, search-persons, search-organizations,
   search-leads, search-all *)

SearchTools == {"search-deals", "search-persons", "search-organizations",
                "search-leads", "search-all"}

TermInputs == {Undefined, Num(42), Str(""), Str("acme")}

ItemTypesInputs == {Undefined, Str("deal,person")}

SearchArgs(tool) ==
    IF tool = "search-all" THEN [term : TermInputs, itemTypes : ItemTypesInputs]
    ELSE [term : TermInputs, itemTypes : {Undefined}]

\* the declared schema: term: z.string(), itemTypes: z.string().optional()
SearchSchema(args) ==
    /\ ZString(args.term)
    /\ \/ args.itemTypes = Undefined
       \/ ZOptional(ZString(args.itemTypes))

\* searchDeals / searchPersons / searchOrganization / searchLeads / searchItem:
\* the upstream refuses a term it finds too short
Search(up, tool, term) ==
    IF term = ""
    THEN [threw |-> TRUE, error |-> BadRequest, data |-> Undefined]
    ELSE [threw |-> FALSE, error |-> NoError,
          data |-> [kind |-> "object", items |-> <<tool, term>>]]

SearchStart(tool, args) ==
    [ tool |-> tool, args |-> args, pc |-> "await",
      calls |-> << [term |-> args.term.value, item_types |-> args.itemTypes] >>,
      response |-> [threw |-> FALSE, error |-> NoError, data |-> Undefined],
      result |-> Pending ]

SearchErrorPrefix(tool) ==
    IF tool = "search-deals" THEN "Error searching deals: "
    ELSE IF tool = "search-persons" THEN "Error searching persons: "
    ELSE IF tool = "search-organizations" THEN "Error searching organizations: "
    ELSE IF tool = "search-leads" THEN "Error searching leads: "
    ELSE "Error performing search: "

SearchReturn(l, response) ==
    [l EXCEPT !.pc = "done", !.response = response,
              !.result = Success(JSONStringify(response.data))]

SearchCatch(l, response) ==
    [l EXCEPT !.pc = "done", !.response = response,
              !.result = ErrorResult(SearchErrorPrefix(l.tool), response.error)]

DispatchSearch(cap) ==
    /\ Len(inv) < cap
    /\ \E tool \in SearchTools : \E args \in SearchArgs(tool) :
          /\ Serving(tool)
          /\ inv' = Append(inv, IF SearchSchema(args) THEN SearchStart(tool, args)
                                ELSE InvalidParams(tool, args))
    /\ UNCHANGED <<main, upstream>>

SearchResponse(i) ==
    /\ inv[i].tool \in SearchTools
    /\ inv[i].pc = "await"
    /\ \E r \in {Search(upstream, inv[i].tool, inv[i].calls[1].term)} \cup Failures :
          inv' = [inv EXCEPT ![i] = IF r.threw THEN SearchCatch(inv[i], r)
                                    ELSE SearchReturn(inv[i], r)]
    /\ UNCHANGED <<main, upstream>>

--------------------------------------------------------------------------
(* The get-stages handler *)

PipelineName(id) == <<"Pipeline ", id>>

Pipeline(id) == [id |-> id, name |-> PipelineName(id)]

RECURSIVE Distinct(_)
Distinct(ids) ==
    \/ ids = <<>>
    \/ /\ \A k \in 2..Len(ids) : ids[k] # ids[1]
       /\ Distinct(Tail(ids))

PipelineIdLists ==
    { q \in UNION { [1..m -> 1..MaxPipelines] : m \in 0..MaxPipelines } : Distinct(q) }

\* the lists of pipelines the upstream may hold
PipelineLists == { [k \in 1..Len(q) |-> Pipeline(q[k])] : q \in PipelineIdLists }

\* the stages the upstream holds for a pipeline
StageRecords(pid, n) ==
    [j \in 1..n |-> [id |-> pid * 10 + j, pipeline_id |-> pid, name |-> <<"Stage ", j>>]]

\* pipelinesApi.getPipelines(): a list of pipelines, a body whose data is
\* null or no list, or a failure
GetPipelines ==
    { [threw |-> FALSE, error |-> NoError, data |-> Array(pl)] : pl \in PipelineLists }
    \cup { [threw |-> FALSE, error |-> NoError, data |-> Null],
           [threw |-> FALSE, error |-> NoError, data |-> [kind |-> "object"]] }
    \cup Failures

\* await stagesResponse.json(): the body of /api/v2/stages?pipeline_id=...,
\* or a rejection when the body is not JSON
StageBodies(pid) ==
    { [threw |-> FALSE, success |-> TRUE, data |-> Array(StageRecords(pid, n))] : n \in 0..MaxStages }
    \cup { [threw |-> FALSE, success |-> FALSE, data |-> Array(StageRecords(pid, 1))],
           [threw |-> FALSE, success |-> FALSE, data |-> Null],
           [threw |-> FALSE, success |-> TRUE, data |-> Null],
           [threw |-> FALSE, success |-> TRUE, data |-> [kind |-> "object"]],
           [threw |-> TRUE, success |-> FALSE, data |-> Undefined] }

\* the handler up to its first await
StagesStart ==
    [ tool |-> "get-stages", args |-> NoArgs, pc |-> "pipelines",
      pipelines |-> <<>>, k |-> 0, allStages |-> <<>>,
      calls |-> << [api |-> "getPipelines", pipeline_id |-> 0] >>,
      response |-> [threw |-> FALSE, error |-> NoError, data |-> Undefined],
      answers |-> <<>>, result |-> Pending ]

\* { ...stage, pipeline_name: pipeline.name }
Tag(stage, pipeline) ==
    [id |-> stage.id, pipeline_id |-> stage.pipeline_id, name |-> stage.name,
     pipeline_name |-> pipeline.name]

\* stagesData.data.map(...)
TagAll(stages, pipeline) == [j \in 1..Len(stages) |-> Tag(stages[j], pipeline)]

\* for (const pipeline of pipelines): the next pipeline's fetch is issued, or
\* the loop is over and allStages is returned
NextPipeline(l) ==
    IF l.k < Len(l.pipelines)
    THEN [l EXCEPT !.k = l.k + 1, !.pc = "fetch",
                   !.calls = Append(l.calls, [api |-> "stages",
                                              pipeline_id |-> l.pipelines[l.k + 1].id])]
    ELSE [l EXCEPT !.pc = "done",
                   !.result = Success(JSONStringify(Array(l.allStages)))]

\* what for (const pipeline of pipelines) throws on a value that cannot be
\* iterated
NotIterable == TypeError("pipelines is not iterable")

\* const pipelines = pipelinesResponse.data || []; the loop over a value that
\* is no list throws into the outer catch
OnPipelines(l, r) ==
    IF r.data.kind \in {"array", "null", "undefined"}
    THEN NextPipeline([l EXCEPT !.response = r,
                                !.pipelines = IF r.data.kind = "array" THEN r.data.items
                                              ELSE <<>>])
    ELSE [l EXCEPT !.pc = "done", !.response = r,
                   !.result = ErrorResult("Error fetching stages: ", NotIterable)]

\* the outer catch (error)
StagesCatch(l, r) ==
    [l EXCEPT !.pc = "done", !.response = r,
              !.result = ErrorResult("Error fetching stages: ", r.error)]

\* an inner failure that reaches the outer catch
StageFailedAborts(l) ==
    [l EXCEPT !.pc = "done",
              !.answers = Append(l.answers,
                  [pipeline_id |-> l.pipelines[l.k].id, ok |-> FALSE, stages |-> <<>>]),
              !.result = ErrorResult("Error fetching stages: ", NoError)]

\* the inner catch (e): the failure is logged and the loop goes on
StageFailed(l) ==
    NextPipeline([l EXCEPT !.answers = Append(l.answers,
                     [pipeline_id |-> l.pipelines[l.k].id, ok |-> FALSE, stages |-> <<>>])])

\* the if is not taken: nothing is pushed
StageSkipped(l) ==
    NextPipeline([l EXCEPT !.answers = Append(l.answers,
                     [pipeline_id |-> l.pipelines[l.k].id, ok |-> FALSE, stages |-> <<>>])])

\* if (stagesData.success && stagesData.data) { ...map...; allStages.push(...) };
\* map on a value that is no array throws into the inner catch
OnStagesData(l, body) ==
    IF body.success /\ body.data.kind \notin {"null", "undefined"}
    THEN IF body.data.kind = "array"
         THEN NextPipeline([l EXCEPT
                  !.allStages = l.allStages \o TagAll(body.data.items, l.pipelines[l.k]),
                  !.answers = Append(l.answers,
                      [pipeline_id |-> l.pipelines[l.k].id, ok |-> TRUE,
                       stages |-> body.data.items])])
         ELSE StageFailed(l)
    ELSE StageSkipped(l)

DispatchStages(cap) ==
    /\ Len(inv) < cap
    /\ Serving("get-stages")
    /\ inv' = Append(inv, StagesStart)
    /\ UNCHANGED <<main, upstream>>

PipelinesResponse(i) ==
    /\ inv[i].tool = "get-stages"
    /\ inv[i].pc = "pipelines"
    /\ \E r \in GetPipelines :
          inv' = [inv EXCEPT ![i] = IF r.threw THEN StagesCatch(inv[i], r)
                                    ELSE OnPipelines(inv[i], r)]
    /\ UNCHANGED <<main, upstream>>

\* await fetch(...): the response arrives, or the request fails
StageFetched(i) ==
    /\ inv[i].tool = "get-stages"
    /\ inv[i].pc = "fetch"
    /\ \E fails \in BOOLEAN :
          inv' = [inv EXCEPT ![i] = IF fails THEN StageFailed(inv[i])
                                    ELSE [inv[i] EXCEPT !.pc = "json"]]
    /\ UNCHANGED <<main, upstream>>

\* await stagesResponse.json()
StageParsed(i) ==
    /\ inv[i].tool = "get-stages"
    /\ inv[i].pc = "json"
    /\ \E body \in StageBodies(inv[i].pipelines[inv[i].k].id) :
          inv' = [inv EXCEPT ![i] = IF body.threw THEN StageFailed(inv[i])
                                    ELSE OnStagesData(inv[i], body)]
    /\ UNCHANGED <<main, upstream>>

--------------------------------------------------------------------------
(* The get-pipelines handler *)

\* the handler up to its await
PipelinesStart ==
    [ tool |-> "get-pipelines", args |-> NoArgs, pc |-> "await",
      calls |-> << [api |-> "getPipelines", pipeline_id |-> 0] >>,
      response |-> [threw |-> FALSE, error |-> NoError, data |-> Undefined],
      result |-> Pending ]

\* return { content: [{ type: "text", text: JSON.stringify(response.data, null, 2) }] }
PipelinesReturn(l, response) ==
    [l EXCEPT !.pc = "done", !.response = response,
              !.result = Success(JSONStringify(response.data))]

\* catch (error)
PipelinesCatch(l, response) ==
    [l EXCEPT !.pc = "done", !.response = response,
              !.result = ErrorResult("Error fetching pipelines: ", response.error)]

DispatchPipelines(cap) ==
    /\ Len(inv) < cap
    /\ Serving("get-pipelines")
    /\ inv' = Append(inv, PipelinesStart)
    /\ UNCHANGED <<main, upstream>>

PipelinesListed(i) ==
    /\ inv[i].tool = "get-pipelines"
    /\ inv[i].pc = "await"
    /\ \E r \in GetPipelines :
          inv' = [inv EXCEPT ![i] = IF r.threw THEN PipelinesCatch(inv[i], r)
                                    ELSE PipelinesReturn(inv[i], r)]
    /\ UNCHANGED <<main, upstream>>

--------------------------------------------------------------------------
(* The get-deal-history handler *)

MaxChanges == 2

DefaultHistoryLimit == 100

HistoryLimitInputs == {Undefined, Num(0), Num(50), Str("50")}

HistoryArgs == [dealId : IdInputs, limit : HistoryLimitInputs]

\* the declared schema: dealId: z.number(), limit: z.number().optional()
HistorySchema(args) ==
    /\ ZNumber(args.dealId)
    /\ \/ args.limit = Undefined
       \/ ZOptional(ZNumber(args.limit))

\* limit || 100
HistoryLimitSent(limit) ==
    IF limit.kind = "undefined" THEN DefaultHistoryLimit
    ELSE IF limit.value = 0 THEN DefaultHistoryLimit
    ELSE limit.value

\* the changes the upstream holds for a deal
ChangeRecords(id, n) == [j \in 1..n |-> [deal_id |-> id, change |-> j]]

\* getDealChangelog({ id, cursor, limit }): a page of changes, with or without
\* a cursor to the next one; a body without data; or a failure
GetDealChangelog(id) ==
    { [threw |-> FALSE, error |-> NoError, data |-> d, next_cursor |-> c] :
         d \in {Array(ChangeRecords(id, n)) : n \in 0..MaxChanges} \cup {Null, Undefined},
         c \in {Undefined, Str("cursor")} }
    \cup { [threw |-> TRUE, error |-> e, data |-> Undefined, next_cursor |-> Undefined] :
              e \in Errors }

\* the handler up to its await
HistoryStart(args) ==
    [ tool |-> "get-deal-history", args |-> args, pc |-> "await",
      calls |-> << [id |-> args.dealId.value, cursor |-> Undefined,
                    limit |-> HistoryLimitSent(args.limit)] >>,
      response |-> [threw |-> FALSE, error |-> NoError, data |-> Undefined,
                    next_cursor |-> Undefined],
      result |-> Pending ]

\* { deal_id: dealId, history_count: response.data?.length || 0,
\*   next_cursor: response.additional_data?.next_cursor || null,
\*   history: response.data || [] }
HistoryBody(dealId, response) ==
    [ kind |-> "object",
      deal_id |-> dealId,
      history_count |-> IF response.data.kind = "array" THEN Len(response.data.items) ELSE 0,
      next_cursor |-> IF response.next_cursor.kind = "undefined" THEN Null
                      ELSE response.next_cursor,
      history |-> IF response.data.kind \in {"null", "undefined"} THEN Array(<<>>)
                  ELSE response.data ]

HistoryReturn(l, response) ==
    [l EXCEPT !.pc = "done", !.response = response,
              !.result = Success(JSONStringify(HistoryBody(l.args.dealId.value, response)))]

\* `Error fetching deal ${dealId} history: `
HistoryErrorPrefix(dealId) == <<"Error fetching deal ", dealId, " history: ">>

\* catch (error)
HistoryCatch(l, response) ==
    [l EXCEPT !.pc = "done", !.response = response,
              !.result = ErrorResult(HistoryErrorPrefix(l.args.dealId.value), response.error)]

DispatchHistory(cap) ==
    /\ Len(inv) < cap
    /\ \E args \in HistoryArgs :
          /\ Serving("get-deal-history")
          /\ inv' = Append(inv, IF HistorySchema(args) THEN HistoryStart(args)
                                ELSE InvalidParams("get-deal-history", args))
    /\ UNCHANGED <<main, upstream>>

HistoryResponse(i) ==
    /\ inv[i].tool = "get-deal-history"
    /\ inv[i].pc = "await"
    /\ \E r \in GetDealChangelog(inv[i].calls[1].id) :
          inv' = [inv EXCEPT ![i] = IF r.threw THEN HistoryCatch(inv[i], r)
                                    ELSE HistoryReturn(inv[i], r)]
    /\ UNCHANGED <<main, upstream>>

--------------------------------------------------------------------------
(* The list handlers' actions and the specifications *)

\* the host dispatches a list tool; the handler runs to its first await
DispatchList(cap, statuses) ==
    /\ Len(inv) < cap
    /\ \E tool \in ListTools : \E args \in ListArgs(tool, statuses) :
          /\ Serving(tool)
          /\ inv' = Append(inv, ListStart(tool, args))
    /\ UNCHANGED <<main, upstream>>

\* start declared outside the handler: every invocation reads the one offset
ResumedSharedStart(invs, i, up) ==
    [j \in 1..Len(invs) |->
        IF j = i THEN ListResume(invs[i], up)
        ELSE IF invs[j].pc = "await"
             THEN [invs[j] EXCEPT !.start = ListResume(invs[i], up).start]
             ELSE invs[j]]

\* invocation i resumes; its locals are its own
Resumed(invs, i, up) == [invs EXCEPT ![i] = ListResume(invs[i], up)]

\* the awaited page arrives
PageResponse(i) ==
    /\ inv[i].tool \in ListTools
    /\ inv[i].pc = "await"
    /\ ~Awaited(inv[i], upstream).threw
    /\ inv' = Resumed(inv, i, upstream)
    /\ UNCHANGED <<main, upstream>>

\* the awaited call rejects
PageFailure(i) ==
    /\ inv[i].tool \in ListTools
    /\ inv[i].pc = "await"
    /\ Awaited(inv[i], upstream).threw
    /\ inv' = Resumed(inv, i, upstream)
    /\ UNCHANGED <<main, upstream>>

Init ==
    /\ main = Started
    /\ upstream \in Upstreams
    /\ inv = <<>>

Next ==
    \/ DispatchList(1, StatusInputs)
    \/ \E i \in 1..Len(inv) : PageResponse(i)
    \/ \E i \in 1..Len(inv) : PageFailure(i)

Spec == Init /\ [][Next]_vars

\* the server from the start of the process, serving one invocation of any
\* tool against a small upstream
ServerFaults ==
    { NoFault,
      [data |-> "ok", meta |-> "ok", throws |-> "Error", page |-> 2, sticky |-> FALSE],
      [data |-> "ok", meta |-> "ok", throws |-> "string", page |-> 1, sticky |-> FALSE],
      [data |-> "ok", meta |-> "ok", throws |-> "cyclicError", page |-> 1, sticky |-> FALSE],
      [data |-> "ok", meta |-> "ok", throws |-> "nullProto", page |-> 1, sticky |-> FALSE],
      [data |-> "null", meta |-> "true", throws |-> "no", page |-> 1, sticky |-> FALSE],
      [data |-> "ok", meta |-> "true", throws |-> "no", page |-> 1, sticky |-> TRUE] }

ServerUpstreams ==
    [total : {0, Limit + 1}, fault : ServerFaults,
     ids : SUBSET (1..MaxId), notFound : NotFoundSignals]

InitServer ==
    /\ \E token \in TokenInputs : main = ProcessStart(token)
    /\ upstream \in ServerUpstreams
    /\ inv = <<>>

NextServer ==
    \/ LoadEnv
    \/ CheckToken
    \/ Configure
    \/ RegisterTool
    \/ RegisterPrompt
    \/ Connect
    \/ ConnectFails
    \/ DispatchList(1, {"undefined", "won"})
    \/ DispatchById(1)
    \/ DispatchSearch(1)
    \/ DispatchStages(1)
    \/ DispatchPipelines(1)
    \/ DispatchHistory(1)
    \/ \E i \in 1..Len(inv) : PageResponse(i)
    \/ \E i \in 1..Len(inv) : PageFailure(i)
    \/ \E i \in 1..Len(inv) : ByIdResponse(i)
    \/ \E i \in 1..Len(inv) : SearchResponse(i)
    \/ \E i \in 1..Len(inv) : PipelinesResponse(i)
    \/ \E i \in 1..Len(inv) : StageFetched(i)
    \/ \E i \in 1..Len(inv) : StageParsed(i)
    \/ \E i \in 1..Len(inv) : PipelinesListed(i)
    \/ \E i \in 1..Len(inv) : HistoryResponse(i)

SpecServer == InitServer /\ [][NextServer]_vars

\* several list invocations suspended at once, against short collections
ConcFaults ==
    { NoFault,
      [data |-> "ok", meta |-> "ok", throws |-> "Error", page |-> 2, sticky |-> FALSE],
      [data |-> "null", meta |-> "true", throws |-> "no", page |-> 1, sticky |-> FALSE] }

ConcUpstreams ==
    { u \in Upstreams : u.total \in {1, Limit + 1, 2 * Limit} /\ u.fault \in ConcFaults }

InitConc ==
    /\ main = Started
    /\ upstream \in ConcUpstreams
    /\ inv = <<>>

NextConc ==
    \/ DispatchList(MaxInvocations, {"undefined", "open"})
    \/ \E i \in 1..Len(inv) : PageResponse(i)
    \/ \E i \in 1..Len(inv) : PageFailure(i)

SpecConc == InitConc /\ [][NextConc]_vars

\* one invocation of any tool, every upstream call of which is answered in
\* the end: with a response or with a failure
InitLive ==
    /\ main = Started
    /\ upstream \in ServerUpstreams
    /\ inv = <<>>

\* the host's calls
Dispatches ==
    \/ DispatchList(1, {"undefined", "won"})
    \/ DispatchById(1)
    \/ DispatchSearch(1)
    \/ DispatchStages(1)
    \/ DispatchPipelines(1)
    \/ DispatchHistory(1)

\* the settling of an awaited upstream call, and the handler's code after it
Settles ==
    \/ \E i \in 1..Len(inv) : PageResponse(i)
    \/ \E i \in 1..Len(inv) : PageFailure(i)
    \/ \E i \in 1..Len(inv) : ByIdResponse(i)
    \/ \E i \in 1..Len(inv) : SearchResponse(i)
    \/ \E i \in 1..Len(inv) : PipelinesResponse(i)
    \/ \E i \in 1..Len(inv) : StageFetched(i)
    \/ \E i \in 1..Len(inv) : StageParsed(i)
    \/ \E i \in 1..Len(inv) : PipelinesListed(i)
    \/ \E i \in 1..Len(inv) : HistoryResponse(i)

NextLive == Dispatches \/ Settles

\* every awaited promise settles: the event loop then resumes the handler
SpecLive == InitLive /\ [][NextLive]_vars /\ WF_vars(Settles)

--------------------------------------------------------------------------
(* What the claims speak of *)

IsError(result) == "isError" \in DOMAIN result /\ result.isError

\* the object a success envelope's text parses to
Body(result) == result.content.text.json

HasBody(result) ==
    /\ "content" \in DOMAIN result
    /\ "json" \in DOMAIN result.content.text

\* the items a list tool's result holds
ItemsOf(tool, result) ==
    IF tool = "get-deals" THEN Body(result).deals
    ELSE IF tool = "get-persons" THEN Body(result).persons
    ELSE Body(result).organizations

RECURSIVE Covers(_, _, _)
\* the pages of all are the records from..., in order, none twice, none missing
Covers(all, coll, from) ==
    \/ all = <<>>
    \/ /\ all[1].coll = coll
       /\ all[1].first = from
       /\ Covers(Tail(all), coll, from + all[1].len)

ExactlyRecords(all, coll, n) == Covers(all, coll, 0) /\ Count(all) = n

\* the pages a collection of n records is served in
UpstreamPages(n) == Max(1, (n + Limit - 1) \div Limit)

Invocations == 1..Len(inv)

ListInvocations == {i \in Invocations : inv[i].tool \in ListTools}

DoneLists == {i \in ListInvocations : inv[i].pc = "done"}

\* C1: against a well-formed upstream holding N < 10000 records, a list tool
\* (not count_only) returns exactly the N records in page order, total_count
\* = N, in as many fetches as the upstream has pages.
C1_WellFormedAggregation ==
    \A i \in DoneLists :
        LET l == inv[i]
        IN  (upstream.fault = NoFault /\ upstream.total < SafetyLimit
             /\ ~CountOnly(l.tool, l.args))
            => /\ ~IsError(l.result)
               /\ ExactlyRecords(ItemsOf(l.tool, l.result),
                                 CollectionOf(l.tool, l.args), upstream.total)
               /\ Body(l.result).total_count = upstream.total
               /\ l.pageCount = UpstreamPages(upstream.total)
               /\ Len(l.calls) = UpstreamPages(upstream.total)

\* three pages of 500 give 1500 items in 3 fetches
C1_Witness ==
    \E i \in DoneLists :
        /\ upstream.fault = NoFault /\ upstream.total = 3 * Limit
        /\ ~CountOnly(inv[i].tool, inv[i].args)
        /\ inv[i].pageCount = 3
        /\ Count(ItemsOf(inv[i].tool, inv[i].result)) = 3 * Limit

\* C2: get-deals with count_only = true returns the total_count that the same
\* invocation without count_only returns against the same upstream.
C2_CountOnlyAgrees ==
    \A i \in DoneLists :
        LET l     == inv[i]
            other == RunList(l.tool, [l.args EXCEPT !.count_only = "false"], upstream)
        IN  (l.tool = "get-deals" /\ l.args.count_only = "true")
            => /\ IsError(l.result) = IsError(other.result)
               /\ HasBody(l.result) = HasBody(other.result)
               /\ HasBody(l.result)
                  => /\ Body(l.result).total_count = Body(other.result).total_count
                     /\ Body(l.result).total_count = Count(Body(other.result).deals)

\* C3: when every page reports more items, the list tool stops once its
\* offset reaches 10000 and returns a successful result marked as terminated
\* early.
MarkedTerminatedEarly(result) ==
    /\ HasBody(result)
    /\ "terminated_early" \in DOMAIN Body(result)
    /\ Body(result).terminated_early = TRUE

C3_CeilingMarked ==
    \A i \in DoneLists :
        (inv[i].hasMore /\ ~inv[i].response.threw)
        => /\ inv[i].start = SafetyLimit
           /\ ~IsError(inv[i].result)
           /\ MarkedTerminatedEarly(inv[i].result)

\* the pagination metadata of a response is absent
MetaAbsent(response) ==
    response.meta \in {"no_additional_data", "no_pagination", "no_flag"}

\* invocation i resumes with a page that lacks the pagination metadata
ResumesWithoutMeta(i) ==
    /\ inv[i].pc = "await"
    /\ inv'[i] # inv[i]
    /\ ~inv'[i].response.threw
    /\ MetaAbsent(inv'[i].response)

\* C4 as claimed: a page without pagination metadata is the final page and
\* contributes zero items: the result is successful and holds exactly the
\* items accumulated before it.
C4_NoMetaPageAddsNothing ==
    [][\A i \in ListInvocations :
          ResumesWithoutMeta(i)
          => /\ inv'[i].pc = "done"
             /\ inv'[i].pageCount = inv[i].pageCount
             /\ ~IsError(inv'[i].result)
             /\ ~CountOnly(inv[i].tool, inv[i].args)
                => ItemsOf(inv[i].tool, inv'[i].result) = inv[i].all]_vars

\* C4 amended: a page without pagination metadata is the final page: no
\* further page is fetched, the result is successful and holds the items
\* accumulated before it followed by that page's own items, if it has a data
\* array.
C4_NoMetaPageIsFinal ==
    [][\A i \in ListInvocations :
          ResumesWithoutMeta(i)
          => /\ inv'[i].pc = "done"
             /\ inv'[i].pageCount = inv[i].pageCount
             /\ inv'[i].calls = inv[i].calls
             /\ ~IsError(inv'[i].result)
             /\ ~CountOnly(inv[i].tool, inv[i].args)
                => ItemsOf(inv[i].tool, inv'[i].result) =
                     IF inv'[i].response.data.kind = "array"
                        /\ inv'[i].response.data.len > 0
                     THEN Append(inv[i].all, inv'[i].response.data)
                     ELSE inv[i].all]_vars

\* a second page without metadata but with records ended an aggregation
C4_Witness ==
    \E i \in DoneLists :
        /\ ~inv[i].response.threw
        /\ MetaAbsent(inv[i].response)
        /\ inv[i].response.data.kind = "array"
        /\ inv[i].response.data.len > 0
        /\ inv[i].pageCount = 2
        /\ ~IsError(inv[i].result)
        /\ ~CountOnly(inv[i].tool, inv[i].args)
        /\ Len(ItemsOf(inv[i].tool, inv[i].result)) = 2

\* C5: a failed page fetch, on whichever page, ends the invocation with an
\* error envelope carrying the upstream message and none of the items
\* accumulated so far.
C5_FailureIsErrorResult ==
    \A i \in DoneLists :
        inv[i].response.threw
        => /\ IsError(inv[i].result)
           /\ ~HasBody(inv[i].result)
           /\ inv[i].result.content.text.template =
                 <<ListErrorPrefix(inv[i].tool), getErrorMessage(inv[i].response.error).value>>
           /\ DOMAIN inv[i].result = {"content", "isError"}

\* C6: a get-by-id tool asked for an ID the upstream does not hold returns an
\* error envelope, however the upstream signals not-found.
C6_NotFoundIsError ==
    \A i \in Invocations :
        (inv[i].tool \in ByIdTools /\ inv[i].pc = "done" /\ inv[i].calls # <<>>
         /\ inv[i].calls[1].id \notin upstream.ids)
        => IsError(inv[i].result)

RECURSIVE ExpectedStages(_, _)
\* the stages of the pipelines whose fetch succeeded (the body reports
\* success and holds a data array), in pipeline order, each with its
\* pipeline's name
ExpectedStages(pipelines, answers) ==
    IF answers = <<>> THEN <<>>
    ELSE (IF answers[1].ok
          THEN [j \in 1..Len(answers[1].stages) |->
                  [id |-> answers[1].stages[j].id,
                   pipeline_id |-> answers[1].stages[j].pipeline_id,
                   name |-> answers[1].stages[j].name,
                   pipeline_name |-> pipelines[1].name]]
          ELSE <<>>)
         \o ExpectedStages(Tail(pipelines), Tail(answers))

\* the get-stages invocations that were given a list of pipelines (or none)
\* and have returned
DoneStages ==
    {i \in Invocations : inv[i].tool = "get-stages" /\ inv[i].pc = "done"
                         /\ ~inv[i].response.threw
                         /\ inv[i].response.data.kind \in {"array", "null", "undefined"}}

\* C7: get-stages, whichever pipelines' stage fetches fail, returns a
\* successful result holding exactly the stages of the pipelines whose fetch
\* succeeded, in pipeline order, each tagged with its own pipeline's name;
\* every pipeline's stages are fetched, also after a failure.
C7_StagesPartialFailure ==
    \A i \in DoneStages :
        LET l == inv[i]
        IN  /\ ~IsError(l.result)
            /\ Len(l.answers) = Len(l.pipelines)
            /\ \A k \in 1..Len(l.pipelines) :
                  /\ l.answers[k].pipeline_id = l.pipelines[k].id
                  /\ l.calls[k + 1].pipeline_id = l.pipelines[k].id
            /\ Body(l.result).items = ExpectedStages(l.pipelines, l.answers)
            /\ \A j \in 1..Len(Body(l.result).items) :
                  \E k \in 1..Len(l.pipelines) :
                     /\ l.pipelines[k].id = Body(l.result).items[j].pipeline_id
                     /\ l.pipelines[k].name = Body(l.result).items[j].pipeline_name
                     /\ l.answers[k].ok

\* the first pipeline's fetch failed and the second's stages are returned
C7_Witness ==
    \E i \in DoneStages :
        /\ Len(inv[i].pipelines) = 2
        /\ ~inv[i].answers[1].ok
        /\ inv[i].answers[2].ok
        /\ Len(Body(inv[i].result).items) = 2
        /\ Body(inv[i].result).items[1].pipeline_name = inv[i].pipelines[2].name

\* C8: without a token the process exits before anything is registered or
\* connected and no request is served; registration, connect and service
\* happen only after the token was checked and found.
C8_NoServiceWithoutToken ==
    /\ (main.pc \notin {"dotenv", "check"} /\ TokenMissing(main.token))
       => /\ main.pc = "exited"
          /\ main.exitCode = 1
          /\ main.tools = <<>>
          /\ main.prompts = <<>>
          /\ ~main.connected
          /\ inv = <<>>
    /\ (main.tools # <<>> \/ main.prompts # <<>> \/ main.connected \/ inv # <<>>)
       => /\ ~TokenMissing(main.token)
          /\ main.pc \notin {"dotenv", "check"}
    /\ main.connected
       => /\ main.tools = ToolOrder
          /\ main.prompts = PromptOrder

\* the process has exited on a missing token
C8_Witness ==
    /\ main.pc = "exited"
    /\ TokenMissing(main.token)
    /\ main.exitCode = 1
    /\ main.tools = <<>>

\* C9: a search tool called with a term that is missing, not a string or
\* empty is rejected before any upstream call; the upstream search only sees
\* non-empty terms.
C9_EmptyTermRejected ==
    \A i \in Invocations :
        inv[i].tool \in SearchTools
        => /\ (~ZString(inv[i].args.term) \/ inv[i].args.term.value = "")
              => /\ inv[i].calls = <<>>
                 /\ "rejected" \in DOMAIN inv[i].result
           /\ \A c \in 1..Len(inv[i].calls) : inv[i].calls[c].term # ""

RECURSIVE OnRun(_, _, _)
\* l is a state of the run of a list handler from cur on, alone against up
OnRun(l, cur, up) ==
    \/ cur = l
    \/ /\ cur.pc # "done"
       /\ OnRun(l, ListResume(cur, up), up)

\* each invocation's locals are those of the same invocation run alone
C10_OnOwnRun ==
    \A i \in ListInvocations :
        LET l == inv[i]
        IN  /\ OnRun(l, ListStart(l.tool, l.args), upstream)
            /\ l.pc = "done" => l.result = RunList(l.tool, l.args, upstream).result
            /\ \A k \in 1..Len(l.all) : l.all[k].coll = CollectionOf(l.tool, l.args)
            /\ \A k \in 1..Len(l.calls) : l.calls[k].coll = CollectionOf(l.tool, l.args)

\* a step changes the locals of one invocation at most
C10_StepsOwn ==
    \A i \in Invocations : \A j \in Invocations :
        (i # j /\ inv'[i] # inv[i]) => inv'[j] = inv[j]

\* C10: with invocations interleaved in any order, each one's locals are at
\* every moment those of the same invocation run alone, its result is the
\* one it returns alone, it holds only records of its own collection, and a
\* step of one invocation changes no other.
C10_Isolated == []C10_OnOwnRun /\ [][C10_StepsOwn]_vars

\* two invocations of different tools were suspended together over two
\* pages each, and both have returned
C10_Witness ==
    /\ Len(inv) >= 2
    /\ inv[1].pc = "done" /\ inv[2].pc = "done"
    /\ inv[1].tool # inv[2].tool
    /\ inv[1].pageCount = 2 /\ inv[2].pageCount = 2
    /\ Count(inv[1].all) > 0 /\ Count(inv[2].all) > 0

\* the requests of an invocation, in the order of their issue: offsets 0,
\* 500, 1000, ..., each of one page, all for the invocation's collection
\* (for get-deals the caller's status, or all_not_deleted), one per loop turn
\* and the last one outstanding exactly while the handler is suspended
C11_RequestsInOrder ==
    \A i \in ListInvocations :
        LET l == inv[i]
        IN  /\ Len(l.calls) = l.pageCount
            /\ Len(l.calls) >= 1
            /\ \A k \in 1..Len(l.calls) :
                  /\ l.calls[k].start = (k - 1) * Limit
                  /\ l.calls[k].limit = Limit
                  /\ l.calls[k].coll = CollectionOf(l.tool, l.args)
            /\ l.tool = "get-deals"
               => \A k \in 1..Len(l.calls) :
                     l.calls[k].coll =
                        <<"deals", IF l.args.status \in StatusEnum THEN l.args.status
                                   ELSE "all_not_deleted">>
            /\ (l.pc = "await") = (l.result = Pending)

\* a request is issued only by the step that receives the response to the
\* request before it, only if that response reported more items, and for the
\* offset one page further; such a step issues one request at most
C11_IssuedOnResponse ==
    \A i \in ListInvocations :
        inv'[i] # inv[i]
        => /\ inv[i].pc = "await"
           /\ inv'[i].response = Awaited(inv[i], upstream)
           /\ Len(inv'[i].calls) \in {Len(inv[i].calls), Len(inv[i].calls) + 1}
           /\ SubSeq(inv'[i].calls, 1, Len(inv[i].calls)) = inv[i].calls
           /\ Len(inv'[i].calls) = Len(inv[i].calls) + 1
              => /\ ~inv'[i].response.threw
                 /\ inv'[i].response.meta = "true"
                 /\ inv'[i].pc = "await"
                 /\ inv'[i].calls[Len(inv'[i].calls)].start =
                       inv[i].calls[Len(inv[i].calls)].start + Limit
           /\ Len(inv'[i].calls) = Len(inv[i].calls) => inv'[i].pc = "done"

\* C11: within one invocation of a list tool one page fetch is in flight at
\* most: the fetch at offset k + 500 is issued only on the response for
\* offset k and only if it reported more items; the offsets are 0, 500, 1000,
\* ... in increasing order, and get-deals requests every page with the same
\* status filter, the caller's or all_not_deleted.
C11_Sequential == []C11_RequestsInOrder /\ [][C11_IssuedOnResponse]_vars

\* get-deals with status won has requested three pages, and is awaiting the
\* third
C11_Witness ==
    \E i \in ListInvocations :
        /\ inv[i].tool = "get-deals"
        /\ inv[i].args.status = "won"
        /\ inv[i].pc = "await"
        /\ Len(inv[i].calls) = 3
        /\ inv[i].calls[3].start = 2 * Limit
        /\ inv[i].calls[3].coll = <<"deals", "won">>
        /\ inv[i].response.meta = "true"

\* no offset is requested twice by one invocation
C12_EachOffsetOnce ==
    \A i \in ListInvocations :
        \A j \in 1..Len(inv[i].calls) : \A k \in 1..Len(inv[i].calls) :
            inv[i].calls[j].start = inv[i].calls[k].start => j = k

\* the step that receives a failure issues no request and ends the
\* invocation, and an ended invocation issues none
C12_NoCallAfterFailure ==
    \A i \in ListInvocations :
        /\ (inv[i].pc = "await" /\ Awaited(inv[i], upstream).threw /\ inv'[i] # inv[i])
           => /\ inv'[i].calls = inv[i].calls
              /\ inv'[i].pageCount = inv[i].pageCount
              /\ inv'[i].pc = "done"
              /\ inv'[i].response.threw
        /\ inv[i].pc = "done" => inv'[i] = inv[i]

\* C12: no upstream call is retried: an invocation requests each page offset
\* once at most, and after a page fetch failed it issues no further upstream
\* call.
C12_NoRetry == []C12_EachOffsetOnce /\ [][C12_NoCallAfterFailure]_vars

\* the fetch of the third page failed: offsets 0, 500 and 1000 were
\* requested once each and the invocation has ended
C12_Witness ==
    \E i \in DoneLists :
        /\ inv[i].response.threw
        /\ Len(inv[i].calls) = 3
        /\ inv[i].calls[1].start = 0
        /\ inv[i].calls[2].start = Limit
        /\ inv[i].calls[3].start = 2 * Limit

\* invocation i resumes with a page whose data is absent, null or not an
\* array
ResumesWithoutData(i) ==
    /\ inv[i].pc = "await"
    /\ inv'[i] # inv[i]
    /\ ~inv'[i].response.threw
    /\ ~HasDataArray(inv'[i].response)

\* C13: a page without a usable data field is an empty final page: it adds
\* no item and ends the aggregation (hasMore = false) with a successful
\* result, whatever its pagination metadata says.
C13_NoDataPageIsFinal ==
    [][\A i \in ListInvocations :
          ResumesWithoutData(i)
          => /\ inv'[i].all = inv[i].all
             /\ ~inv'[i].hasMore
             /\ inv'[i].calls = inv[i].calls
             /\ inv'[i].pc = "done"
             /\ ~IsError(inv'[i].result)]_vars

\* C14: in every list invocation, against any upstream, the offset is a
\* multiple of 500 between 0 and 10000, no page is requested at an offset of
\* 10000 or more, 20 pages are fetched at most, and a result that holds
\* items reports as total_count the length of its items array.
C14_Bounded ==
    \A i \in ListInvocations :
        LET l == inv[i]
        IN  /\ l.start \in 0..SafetyLimit
            /\ l.start % Limit = 0
            /\ \A k \in 1..Len(l.calls) :
                  /\ l.calls[k].start < SafetyLimit
                  /\ l.calls[k].start % Limit = 0
            /\ Len(l.calls) <= SafetyLimit \div Limit
            /\ l.pageCount <= SafetyLimit \div Limit
            /\ (l.pc = "done" /\ HasBody(l.result) /\ ~CountOnly(l.tool, l.args))
               => Body(l.result).total_count = Count(ItemsOf(l.tool, l.result))

\* an upstream that always reports more items was read up to the ceiling:
\* 20 fetches, the last at offset 9500, and 10000 items returned and counted
C14_Witness ==
    \E i \in DoneLists :
        /\ ~CountOnly(inv[i].tool, inv[i].args)
        /\ ~IsError(inv[i].result)
        /\ inv[i].start = SafetyLimit
        /\ Len(inv[i].calls) = SafetyLimit \div Limit
        /\ inv[i].calls[Len(inv[i].calls)].start = SafetyLimit - Limit
        /\ Body(inv[i].result).total_count = SafetyLimit
        /\ Count(ItemsOf(inv[i].tool, inv[i].result)) = SafetyLimit

\* the invocations whose arguments passed the schema: their handler ran
Handled == {i \in Invocations : inv[i].calls # <<>>}

IsSuccessEnvelope(result) ==
    /\ DOMAIN result = {"content"}
    /\ result.content.type = "text"

IsErrorEnvelope(result) ==
    /\ DOMAIN result = {"content", "isError"}
    /\ result.isError
    /\ result.content.type = "text"

\* an upstream call of the invocation failed; of get-stages only the call
\* for the pipelines is recorded here, the stage fetches are in its answers
UpstreamFailed(l) == l.response.threw

\* C15: every invocation that has returned holds a success envelope without
\* isError or an envelope with isError = true, and isError = true if and only
\* if an upstream call other than a stage fetch of get-stages failed.
C15_ErrorIffCallFailed ==
    \A i \in Handled :
        inv[i].pc = "done"
        => /\ IsSuccessEnvelope(inv[i].result) \/ IsErrorEnvelope(inv[i].result)
           /\ IsError(inv[i].result) <=> UpstreamFailed(inv[i])

==========================================================================
